---- MODULE Spec2Model ----
(***************************************************************************)
(* A model of dpark's SimpleJob (src/dpark/job.py): the per-job task       *)
(* placement and fault-recovery engine.  One SimpleJob instance, driven by *)
(* an external scheduler through slaveOffer and statusUpdate, with the     *)
(* wall clock (time.time()) advanced by the environment.                   *)
(*                                                                         *)
(* Conventions.  Task indices are 1..numTasks here (0..numTasks-1 in the   *)
(* source); None stands for Python's None as a task index.  The dict       *)
(* pendingTasksForHost is a function over all names with <<>> for a key    *)
(* that is absent: every read in the source goes through setdefault(h, []) *)
(* so an absent key and an empty list are not told apart.  blacklist[i] is *)
(* a set: the source's list is only appended to when the host is not in it *)
(* and only read with `in`.  task.used is written by taskFinished and read *)
(* only into total_used and the log line of a finished job, so the Task    *)
(* records here carry id, preferredLocations, start and tried.             *)
(***************************************************************************)
EXTENDS Integers, Sequences, FiniteSets, TLC

\* ------------------------------------------------------------ constants

TASK_STARTING == 0
TASK_RUNNING == 1
TASK_FINISHED == 2
TASK_FAILED == 3
TASK_KILLED == 4
TASK_LOST == 5

LOCALITY_WAIT == 5
MAX_TASK_FAILURES == 4
CPUS_PER_TASK == 1

\* The speculative branch's literal thresholds: tasksFinished > numTasks * .75
\* (as the exact fraction SpecNum / SpecDen), used > avg * 2, used > 10.
SpecNum == 3
SpecDen == 4
SlowFactor == 2
SlowFloor == 10

None == 0
NoTime == -1

\* ------------------------------------------------------------ bounds

\* Placement runs (Spec): the clock stops advancing at MaxTime, and at most
\* MaxRequeue re-enqueues (non-fetch LOST/FAILED/KILLED updates on an
\* unfinished index) are delivered to the job.
MaxTime == 5
MaxRequeue == 1
\* Retry runs (SpecRetry): at most MaxRetryRequeue re-enqueues are delivered.
MaxRetryRequeue == 5
\* Straggler runs (SpecStraggler): the clock stops advancing at MaxStragglerTime.
MaxStragglerTime == 11
\* Timeout runs (SpecTimeout): the clock stops advancing at MaxTimeoutTime, and
\* no offer is made once the job has asked MaxTimeoutAborts times for the
\* scheduler to shut down.
MaxTimeoutTime == 66
MaxTimeoutAborts == 1
\* Fair runs (SpecLive): the clock stops advancing at MaxLiveTime.
MaxLiveTime == 10

\* ------------------------------------------------------------ environment

\* Host strings offers arrive under.
OfferHosts == {"w1", "w2"}

\* The clock advances by just under, or exactly, the locality wait.
TickSteps == {LOCALITY_WAIT - 1, LOCALITY_WAIT}
\* In straggler runs it advances by just over the 10 seconds of the timeout test.
StragglerTickSteps == {SlowFloor + 1}

\* The status updates delivered: (status, reason).  A reason is a FetchFailed
\* instance or not (None, or a failure object with a message: taskLost tells
\* these apart only in what it logs).  TASK_STARTING is dispatched nowhere,
\* like TASK_RUNNING.
Updates ==
    {<<TASK_RUNNING, "None">>, <<TASK_FINISHED, "None">>}
        \cup ({TASK_FAILED, TASK_KILLED, TASK_LOST} \X {"None", "FetchFailed"})

\* The updates of timeout runs: a task finishes, or ends in a fetch failure.
TimeoutUpdates == {<<TASK_FINISHED, "None">>, <<TASK_LOST, "FetchFailed">>}

\* What a launched task reports in fair runs, always with a non-fetch reason.
LiveStatuses == {TASK_FINISHED, TASK_FAILED, TASK_LOST}

\* socket.gethostbyname_ex(host): (ok, canonical name, aliases, addresses).
\* "w1" is an alias of w1.lan at 10.0.0.1; "w2" does not resolve (the call
\* raises); an address resolves to itself.
gethostbyname_ex(host) ==
    CASE host = "w1" -> [ok |-> TRUE, h |-> "w1.lan", hs |-> <<"w1">>, ips |-> <<"10.0.0.1">>]
      [] host = "w1.lan" -> [ok |-> TRUE, h |-> "w1.lan", hs |-> <<"w1">>, ips |-> <<"10.0.0.1">>]
      [] host = "10.0.0.1" -> [ok |-> TRUE, h |-> "10.0.0.1", hs |-> <<>>, ips |-> <<"10.0.0.1">>]
      [] OTHER -> [ok |-> FALSE, h |-> host, hs |-> <<>>, ips |-> <<>>]

\* Every name a bucket of pendingTasksForHost can be keyed by.
Names == {"w1", "w1.lan", "10.0.0.1", "w2"}

\* The jobs: each a sequence of the tasks' preferredLocations().
Jobs ==
    { << <<"w1.lan">>, <<>> >>,
      << <<"w1.lan">>, <<"10.0.0.1", "w2">> >> }
RetryJobs == { << <<"w1.lan", "w2">>, <<>> >> }
RetryHosts == {"w1"}
\* The smallest job that can be `mostly done`: 4 > 5 * .75.
StragglerJobs == { << <<>>, <<>>, <<>>, <<>>, <<>> >> }
StragglerHosts == {"w1"}

\* Fair runs: two tasks without preferences (so that no launch waits for
\* locality), served by two hosts.
LiveJobs == { << <<>>, <<>> >> }
LiveHosts == {"w1", "w2"}
LiveIndices == 1..2
LiveTickSteps == {LOCALITY_WAIT}

\* ------------------------------------------------------------ state

VARIABLES
    tasks,                    \* the Task objects: id, preferredLocations, start, tried
    launched, finished, numFailures, blacklist,
    tidToIndex,
    tasksLaunched, tasksFinished, total_used,
    lastPreferredLaunchTime,
    pendingTasksForHost, pendingTasksWithNoPrefs, allPendingTasks,
    failed, causeOfFailure,
    sched,                    \* the external scheduler: the calls it has received
    now,                      \* time.time()
    last                      \* the last call: its arguments, its result, the sched calls it made

vars == << tasks, launched, finished, numFailures, blacklist, tidToIndex,
           tasksLaunched, tasksFinished, total_used, lastPreferredLaunchTime,
           pendingTasksForHost, pendingTasksWithNoPrefs, allPendingTasks,
           failed, causeOfFailure, sched, now, last >>

numTasks == Len(tasks)
Indices == 1..numTasks

\* task.id of the task at index i.
TaskId(i) == 10 + i

NoCall == [op |-> "init", host |-> "", tid |-> None, status |-> TASK_STARTING,
           reason |-> "None", ret |-> None, preferred |-> FALSE,
           localOnly |-> FALSE, speculative |-> FALSE, calls |-> <<>>]

\* ------------------------------------------------------------ helpers

RECURSIVE AppendToHosts(_, _, _)
AppendToHosts(forHost, loc, i) ==
    IF loc = <<>> THEN forHost
    ELSE AppendToHosts([forHost EXCEPT ![Head(loc)] = Append(@, i)], Tail(loc), i)

\* Faulty variant of addPendingTask: a task without preferred locations goes to the
\* flat list alone.
addPendingTaskNoBucket(p, loc, i) ==
    [forHost |-> IF loc = <<>> THEN p.forHost ELSE AppendToHosts(p.forHost, loc, i),
     noPrefs |-> p.noPrefs,
     all     |-> Append(p.all, i)]

\* addPendingTask(i), on the three pending structures p = [forHost, noPrefs, all],
\* with loc = self.tasks[i].preferredLocations().
addPendingTask(p, loc, i) ==
    [forHost |-> IF loc = <<>> THEN p.forHost ELSE AppendToHosts(p.forHost, loc, i),
     noPrefs |-> IF loc = <<>> THEN Append(p.noPrefs, i) ELSE p.noPrefs,
     all     |-> Append(p.all, i)]

RECURSIVE AddAll(_, _, _)
AddAll(p, locs, i) ==
    IF i > Len(locs) THEN p ELSE AddAll(addPendingTask(p, locs[i], i), locs, i + 1)

\* Faulty variant of ResolvedNames: the offered string alone, unresolved.
LiteralName(host) == <<host>>

\* The names an offered host stands for: [h] + hs + ips, or the host alone
\* when resolution raises.
ResolvedNames(host) ==
    LET r == gethostbyname_ex(host)
    IN  IF r.ok THEN <<r.h>> \o r.hs \o r.ips ELSE <<host>>

RECURSIVE Concat(_, _)
Concat(forHost, names) ==
    IF names = <<>> THEN <<>> ELSE forHost[Head(names)] \o Concat(forHost, Tail(names))

getPendingTasksForHost(host) == Concat(pendingTasksForHost, ResolvedNames(host))

\* Faulty variants of Candidate: an index that is already launched is taken
\* again; or the blacklist is not consulted.
CandidateRelaunch(i, host) == ~finished[i] /\ host \notin blacklist[i]
CandidateAnyHost(i, host) == ~launched[i] /\ ~finished[i]

\* The test of findTaskFromList.
Candidate(i, host) == ~launched[i] /\ ~finished[i] /\ host \notin blacklist[i]

\* findTaskFromList(l, host): the first candidate of l, or None.  The source
\* appends host to the blacklist of the index it returns; findTask returns
\* right after its first match, so the append is made once, in slaveOffer.
findTaskFromList(l, host) ==
    IF \E k \in 1..Len(l) : Candidate(l[k], host)
    THEN l[CHOOSE k \in 1..Len(l) :
              Candidate(l[k], host) /\ \A j \in 1..(k - 1) : ~Candidate(l[j], host)]
    ELSE None

\* Faulty variant of findTask: the no-preference tier is searched before the local one.
findTaskNoPrefFirst(host, localOnly) ==
    LET localTask  == findTaskFromList(getPendingTasksForHost(host), host)
        noPrefTask == findTaskFromList(pendingTasksWithNoPrefs, host)
    IN  IF noPrefTask # None THEN [i |-> noPrefTask, preferred |-> TRUE]
        ELSE IF localTask # None THEN [i |-> localTask, preferred |-> TRUE]
        ELSE IF ~localOnly
             THEN [i |-> findTaskFromList(allPendingTasks, host), preferred |-> FALSE]
        ELSE [i |-> None, preferred |-> FALSE]

\* findTask(host, localOnly): (index, preferred).
findTask(host, localOnly) ==
    LET localTask  == findTaskFromList(getPendingTasksForHost(host), host)
        noPrefTask == findTaskFromList(pendingTasksWithNoPrefs, host)
    IN  IF localTask # None THEN [i |-> localTask, preferred |-> TRUE]
        ELSE IF noPrefTask # None THEN [i |-> noPrefTask, preferred |-> TRUE]
        ELSE IF ~localOnly
             THEN [i |-> findTaskFromList(allPendingTasks, host), preferred |-> FALSE]
        ELSE [i |-> None, preferred |-> FALSE]

\* Faulty variants of LocalOnly: the wait still holds at exactly LOCALITY_WAIT
\* seconds; or there is no wait at all.
LocalOnlyInclusive(t) == t - lastPreferredLaunchTime <= LOCALITY_WAIT
LocalOnlyNever(t) == FALSE

\* localOnly of slaveOffer.
LocalOnly(t) == t - lastPreferredLaunchTime < LOCALITY_WAIT

\* ------------------------------------------------------------ initial state

InitJob(locs) ==
    LET p == AddAll([forHost |-> [n \in Names |-> <<>>], noPrefs |-> <<>>, all |-> <<>>],
                    locs, 1)
    IN  /\ tasks = [i \in 1..Len(locs) |->
                      [id |-> TaskId(i), preferredLocations |-> locs[i],
                       start |-> NoTime, tried |-> 0]]
        /\ launched = [i \in 1..Len(locs) |-> FALSE]
        /\ finished = [i \in 1..Len(locs) |-> FALSE]
        /\ numFailures = [i \in 1..Len(locs) |-> 0]
        /\ blacklist = [i \in 1..Len(locs) |-> {}]
        /\ tidToIndex = [t \in {} |-> None]
        /\ tasksLaunched = 0
        /\ tasksFinished = 0
        /\ total_used = 0
        /\ lastPreferredLaunchTime = 0
        /\ pendingTasksForHost = p.forHost
        /\ pendingTasksWithNoPrefs = p.noPrefs
        /\ allPendingTasks = p.all
        /\ failed = FALSE
        /\ causeOfFailure = ""
        /\ sched = [taskEnded |-> [i \in 1..Len(locs) |-> <<>>], jobFinished |-> 0,
                    requestMoreResources |-> 0, shutdown |-> 0]
        /\ now = 0
        /\ last = NoCall

Init == \E locs \in Jobs : InitJob(locs)

\* ------------------------------------------------------------ operations

Called(op, host, tid, status, reason) ==
    [NoCall EXCEPT !.op = op, !.host = host, !.tid = tid, !.status = status,
                   !.reason = reason]

JobUnchanged ==
    UNCHANGED << tasks, launched, finished, numFailures, blacklist, tidToIndex,
                 tasksLaunched, tasksFinished, total_used, lastPreferredLaunchTime,
                 pendingTasksForHost, pendingTasksWithNoPrefs, allPendingTasks,
                 failed, causeOfFailure, sched >>

\* Faulty variants of IsFinished: the handlers never take an index as finished; or
\* take it as finished only while it is launched; or only when it finished
\* with Success.
NeverFinished(i) == FALSE
FinishedWhileLaunched(i) == finished[i] /\ launched[i]
FinishedBySuccess(i) == finished[i] /\ sched.taskEnded[i] = <<"Success">>

\* `if not self.finished[i]` of taskFinished and taskLost, negated.
IsFinished(i) == finished[i]

\* Faulty variant of IsFetchFailed: no reason is taken for a fetch failure.
NoFetchFailure(reason) == FALSE

\* isinstance(reason, FetchFailed)
IsFetchFailed(reason) == reason = "FetchFailed"

\* Faulty variant of CountsAsFailure: a killed task counts as a failure too.
CountsEveryLoss(status) == status \in {TASK_FAILED, TASK_LOST, TASK_KILLED}

\* status in (TASK_FAILED, TASK_LOST)
CountsAsFailure(status) == status \in {TASK_FAILED, TASK_LOST}

\* Faulty variant of ExceedsRetries: the budget is spent one failure early.
ReachesRetries(n) == n >= MAX_TASK_FAILURES

\* self.numFailures[index] > MAX_TASK_FAILURES
ExceedsRetries(n) == n > MAX_TASK_FAILURES

\* Faulty variant of JobDone: the count is compared as it was before the increment.
JobDoneBeforeCount(n) == n - 1 = numTasks

\* self.tasksFinished == self.numTasks, for the new value n of tasksFinished.
JobDone(n) == n = numTasks

\* Faulty variant of abort: the scheduler is shut down without being told that
\* the job is over.
abortUnnotified(message, s) ==
    /\ failed' = TRUE
    /\ causeOfFailure' = message
    /\ sched' = [s EXCEPT !.shutdown = @ + 1]

\* abort(message), on top of the sched record s the caller has reached.  The
\* message is the caller's format string, its arguments left out.
abort(message, s) ==
    /\ failed' = TRUE
    /\ causeOfFailure' = message
    /\ sched' = [s EXCEPT !.jobFinished = @ + 1, !.shutdown = @ + 1]

\* Faulty variant of Oldest: the earliest start among all tasks, finished or not.
OldestOfAll ==
    {i \in Indices : \A j \in Indices : tasks[i].start <= tasks[j].start}

\* The unfinished tasks with the earliest start: sorted(...)[0][1].  On equal
\* starts the tuples compare the Task objects, an order the job does not fix.
Oldest ==
    {i \in Indices : /\ ~finished[i]
                     /\ \A j \in Indices : ~finished[j] => tasks[i].start <= tasks[j].start}

\* Faulty variant of TimedOut: ten seconds are enough, whatever the mean.
TimedOutFloorOnly(used) == used > SlowFloor

\* used > avg * 2 and used > 10, with avg = total_used / tasksFinished.
TimedOut(used) ==
    /\ used * tasksFinished > total_used * SlowFactor
    /\ used > SlowFloor

\* tasksFinished < numTasks and tasksFinished > numTasks * .75
MostlyDone ==
    /\ tasksFinished < numTasks
    /\ tasksFinished * SpecDen > numTasks * SpecNum

\* Faulty variant of Resubmit: the straggler goes through the test of
\* findTaskFromList, so a host it has been handed to does not get it again.
ResubmitBlacklisting(host) ==
    LET called == [Called("slaveOffer", host, None, TASK_STARTING, "None")
                     EXCEPT !.speculative = TRUE]
        Due(i) == /\ MostlyDone /\ TimedOut(now - tasks[i].start)
                  /\ tasks[i].tried <= MAX_TASK_FAILURES
                  /\ host \notin blacklist[i]
    IN  IF \E i \in Oldest : Due(i)
        THEN \E i \in Oldest :
               /\ Due(i)
               /\ tasks' = [tasks EXCEPT ![i].start = now, ![i].tried = @ + 1]
               /\ blacklist' = [blacklist EXCEPT ![i] = @ \cup {host}]
               /\ last' = [called EXCEPT !.ret = i]
               /\ UNCHANGED << launched, finished, numFailures, tidToIndex,
                               tasksLaunched, tasksFinished, total_used,
                               lastPreferredLaunchTime, pendingTasksForHost,
                               pendingTasksWithNoPrefs, allPendingTasks, failed,
                               causeOfFailure, sched >>
        ELSE last' = called /\ JobUnchanged

\* slaveOffer, when tasksLaunched >= numTasks.
Resubmit(host) ==
    IF MostlyDone
    THEN \E i \in Oldest :
           LET used == now - tasks[i].start
           IN  IF TimedOut(used)
               THEN IF tasks[i].tried <= MAX_TASK_FAILURES
                    THEN /\ tasks' = [tasks EXCEPT ![i].start = now, ![i].tried = @ + 1]
                         /\ last' = [Called("slaveOffer", host, None, TASK_STARTING, "None")
                                       EXCEPT !.ret = i, !.speculative = TRUE]
                         /\ UNCHANGED << launched, finished, numFailures, blacklist,
                                         tidToIndex, tasksLaunched, tasksFinished,
                                         total_used, lastPreferredLaunchTime,
                                         pendingTasksForHost, pendingTasksWithNoPrefs,
                                         allPendingTasks, failed, causeOfFailure, sched >>
                    ELSE /\ abort("task %s timeout", sched)
                         /\ last' = [Called("slaveOffer", host, None, TASK_STARTING, "None")
                                       EXCEPT !.speculative = TRUE,
                                              !.calls = <<"jobFinished", "shutdown">>]
                         /\ UNCHANGED << tasks, launched, finished, numFailures, blacklist,
                                         tidToIndex, tasksLaunched, tasksFinished,
                                         total_used, lastPreferredLaunchTime,
                                         pendingTasksForHost, pendingTasksWithNoPrefs,
                                         allPendingTasks >>
               ELSE /\ last' = [Called("slaveOffer", host, None, TASK_STARTING, "None")
                                  EXCEPT !.speculative = TRUE]
                    /\ JobUnchanged
    ELSE /\ last' = [Called("slaveOffer", host, None, TASK_STARTING, "None")
                       EXCEPT !.speculative = TRUE]
         /\ JobUnchanged

\* slaveOffer, when tasksLaunched < numTasks.
Launch(host) ==
    LET localOnly == LocalOnly(now)
        found     == findTask(host, localOnly)
        i         == found.i
    IN  IF i # None
        THEN /\ blacklist' = [blacklist EXCEPT ![i] = @ \cup {host}]
             /\ tasks' = [tasks EXCEPT ![i].start = now, ![i].tried = 0]
             /\ tidToIndex' = (tasks[i].id :> i) @@ tidToIndex
             /\ launched' = [launched EXCEPT ![i] = TRUE]
             /\ tasksLaunched' = tasksLaunched + 1
             /\ lastPreferredLaunchTime' =
                    IF found.preferred THEN now ELSE lastPreferredLaunchTime
             /\ last' = [Called("slaveOffer", host, None, TASK_STARTING, "None")
                           EXCEPT !.ret = i, !.preferred = found.preferred,
                                  !.localOnly = localOnly]
             /\ UNCHANGED << finished, numFailures, tasksFinished, total_used,
                             pendingTasksForHost, pendingTasksWithNoPrefs,
                             allPendingTasks, failed, causeOfFailure, sched >>
        ELSE /\ last' = [Called("slaveOffer", host, None, TASK_STARTING, "None")
                           EXCEPT !.localOnly = localOnly]
             /\ JobUnchanged

\* slaveOffer(host, availableCpus): availableCpus is not read.
slaveOffer(host, availableCpus) ==
    /\ IF tasksLaunched >= numTasks THEN Resubmit(host) ELSE Launch(host)
    /\ UNCHANGED now

\* taskFinished(tid, result, update)
taskFinished(tid, status, reason) ==
    LET i == tidToIndex[tid]
    IN  IF ~IsFinished(i)
        THEN LET used == now - tasks[i].start
                 done == JobDone(tasksFinished + 1)
             IN  /\ finished' = [finished EXCEPT ![i] = TRUE]
                 /\ tasksFinished' = tasksFinished + 1
                 /\ total_used' = total_used + used
                 /\ sched' = [sched EXCEPT !.taskEnded[i] = Append(@, "Success"),
                                           !.jobFinished = IF done THEN @ + 1 ELSE @]
                 /\ last' = [Called("statusUpdate", "", tid, status, reason)
                               EXCEPT !.calls = IF done THEN <<"taskEnded", "jobFinished">>
                                                ELSE <<"taskEnded">>]
                 /\ UNCHANGED << tasks, launched, numFailures, blacklist, tidToIndex,
                                 tasksLaunched, lastPreferredLaunchTime,
                                 pendingTasksForHost, pendingTasksWithNoPrefs,
                                 allPendingTasks, failed, causeOfFailure >>
        ELSE /\ last' = Called("statusUpdate", "", tid, status, reason)
             /\ JobUnchanged

\* taskLost(tid, status, reason)
taskLost(tid, status, reason) ==
    LET index == tidToIndex[tid]
    IN  IF ~IsFinished(index)
        THEN /\ launched' = [launched EXCEPT ![index] = FALSE]
             /\ tasksLaunched' = tasksLaunched - 1
             /\ IF IsFetchFailed(reason)
                THEN LET done == JobDone(tasksFinished + 1)
                     IN  /\ sched' = [sched EXCEPT
                                        !.taskEnded[index] = Append(@, "FetchFailed"),
                                        !.jobFinished = IF done THEN @ + 1 ELSE @]
                         /\ finished' = [finished EXCEPT ![index] = TRUE]
                         /\ tasksFinished' = tasksFinished + 1
                         /\ last' = [Called("statusUpdate", "", tid, status, reason)
                                       EXCEPT !.calls =
                                          IF done THEN <<"taskEnded", "jobFinished">>
                                          ELSE <<"taskEnded">>]
                         /\ UNCHANGED << numFailures, pendingTasksForHost,
                                         pendingTasksWithNoPrefs, allPendingTasks,
                                         failed, causeOfFailure >>
                ELSE LET p == addPendingTask([forHost |-> pendingTasksForHost,
                                              noPrefs |-> pendingTasksWithNoPrefs,
                                              all |-> allPendingTasks],
                                             tasks[index].preferredLocations, index)
                         s == [sched EXCEPT !.requestMoreResources = @ + 1]
                         counted == CountsAsFailure(status)
                         n == IF counted THEN numFailures[index] + 1 ELSE numFailures[index]
                         aborts == counted /\ ExceedsRetries(n)
                     IN  /\ pendingTasksForHost' = p.forHost
                         /\ pendingTasksWithNoPrefs' = p.noPrefs
                         /\ allPendingTasks' = p.all
                         /\ numFailures' = [numFailures EXCEPT ![index] = n]
                         /\ IF aborts
                            THEN abort("Task %d failed more than %d times", s)
                            ELSE /\ sched' = s
                                 /\ UNCHANGED << failed, causeOfFailure >>
                         /\ last' = [Called("statusUpdate", "", tid, status, reason)
                                       EXCEPT !.calls =
                                          IF aborts
                                          THEN <<"requestMoreResources", "jobFinished",
                                                 "shutdown">>
                                          ELSE <<"requestMoreResources">>]
                         /\ UNCHANGED << finished, tasksFinished >>
             /\ UNCHANGED << tasks, blacklist, tidToIndex, total_used,
                             lastPreferredLaunchTime >>
        ELSE /\ last' = Called("statusUpdate", "", tid, status, reason)
             /\ JobUnchanged

\* Whether the update re-enqueues its index (the branch of taskLost that calls
\* addPendingTask).
Requeues(tid, status, reason) ==
    /\ status \in {TASK_LOST, TASK_FAILED, TASK_KILLED}
    /\ ~finished[tidToIndex[tid]]
    /\ reason # "FetchFailed"

\* statusUpdate(tid, status, reason, result, update), for the id of a task
\* that has been launched (tidToIndex[tid] raises KeyError for any other).
statusUpdate(tid, status, reason) ==
    /\ tid \in DOMAIN tidToIndex
    /\ IF status = TASK_FINISHED THEN taskFinished(tid, status, reason)
       ELSE IF status \in {TASK_LOST, TASK_FAILED, TASK_KILLED}
            THEN taskLost(tid, status, reason)
       ELSE /\ last' = Called("statusUpdate", "", tid, status, reason)
            /\ JobUnchanged
    /\ UNCHANGED now

\* time.time() moves on by d.
Tick(d, limit) ==
    /\ now + d <= limit
    /\ now' = now + d
    /\ last' = Called("tick", "", None, TASK_STARTING, "None")
    /\ JobUnchanged

\* The environment delivers an update that re-enqueues only while fewer than
\* bound re-enqueues have been made.
Deliverable(tid, status, reason, bound) ==
    (tid \in DOMAIN tidToIndex /\ Requeues(tid, status, reason))
        => Len(allPendingTasks) < numTasks + bound

\* The scheduler passes on a worker's status report.
Deliver(tid, status, reason, bound) ==
    /\ Deliverable(tid, status, reason, bound)
    /\ statusUpdate(tid, status, reason)

\* Placement runs: two hosts, a fine clock, few losses.
Next ==
    \/ \E host \in OfferHosts : slaveOffer(host, CPUS_PER_TASK)
    \/ \E i \in Indices, u \in Updates : Deliver(TaskId(i), u[1], u[2], MaxRequeue)
    \/ \E d \in TickSteps : Tick(d, MaxTime)

Spec == Init /\ [][Next]_vars

\* Retry runs: one job on one host, many losses, the clock standing still.
InitRetry == \E locs \in RetryJobs : InitJob(locs)

NextRetry ==
    \/ \E host \in RetryHosts : slaveOffer(host, CPUS_PER_TASK)
    \/ \E i \in Indices, u \in Updates : Deliver(TaskId(i), u[1], u[2], MaxRetryRequeue)

SpecRetry == InitRetry /\ [][NextRetry]_vars

\* Straggler runs: a five-task job on one host, a coarse clock, and no update
\* that re-enqueues.
InitStraggler == \E locs \in StragglerJobs : InitJob(locs)

NextStraggler ==
    \/ \E host \in StragglerHosts : slaveOffer(host, CPUS_PER_TASK)
    \/ \E i \in Indices, u \in Updates : Deliver(TaskId(i), u[1], u[2], 0)
    \/ \E d \in StragglerTickSteps : Tick(d, MaxStragglerTime)

SpecStraggler == InitStraggler /\ [][NextStraggler]_vars

\* Timeout runs: the five-task job is handed out before the clock moves, its
\* tasks finish or end in a fetch failure, and the straggler is offered again
\* and again until the job gives up.
NextTimeout ==
    \/ \E host \in StragglerHosts :
          sched.shutdown < MaxTimeoutAborts /\ slaveOffer(host, CPUS_PER_TASK)
    \/ \E i \in Indices, u \in TimeoutUpdates : Deliver(TaskId(i), u[1], u[2], 0)
    \/ \E d \in StragglerTickSteps :
          tasksLaunched >= numTasks /\ Tick(d, MaxTimeoutTime)

SpecTimeout == InitStraggler /\ [][NextTimeout]_vars

\* Fair runs: every host keeps offering, the clock moves past the locality
\* wait, and every task that is launched and not finished reports in the end.
InitLive == \E locs \in LiveJobs : InitJob(locs)

\* The launched instance of task i reports its end.
Report(i) ==
    /\ launched[i] /\ ~finished[i]
    /\ \E status \in LiveStatuses : statusUpdate(TaskId(i), status, "None")

NextLive ==
    \/ \E host \in LiveHosts : slaveOffer(host, CPUS_PER_TASK)
    \/ \E i \in LiveIndices : Report(i)
    \/ \E d \in LiveTickSteps : Tick(d, MaxLiveTime)

Fairness ==
    /\ \A host \in LiveHosts : WF_vars(slaveOffer(host, CPUS_PER_TASK))
    /\ \A i \in LiveIndices : WF_vars(Report(i))
    /\ WF_vars(\E d \in LiveTickSteps : Tick(d, MaxLiveTime))

SpecLive == InitLive /\ [][NextLive]_vars /\ Fairness

\* ------------------------------------------------------------ properties

\* Vocabulary of the properties below.
Pending(i) == ~launched[i] /\ ~finished[i]
Range(q) == {q[k] : k \in 1..Len(q)}
LostStatuses == {TASK_LOST, TASK_FAILED, TASK_KILLED}
\* The step is slaveOffer(host, _), resp. statusUpdate for the id of task i.
OfferStep(host) == last'.op = "slaveOffer" /\ last'.host = host
UpdateStep(i) == last'.op = "statusUpdate" /\ last'.tid = tasks[i].id
\* The step called abort.
AbortStep == sched'.shutdown = sched.shutdown + 1
PendingUnchanged ==
    UNCHANGED << pendingTasksForHost, pendingTasksWithNoPrefs, allPendingTasks >>

C2_Original ==
    sched.jobFinished = (IF tasksFinished = numTasks THEN 1 ELSE 0)

\* C2, amended: taskFinished and the fetch-failure branch of taskLost call
\* sched.jobFinished exactly once between them, in the step in which
\* tasksFinished first reaches numTasks; every call of abort (the only caller
\* of sched.shutdown) calls it once more, whatever tasksFinished is.
C2_JobFinishedOncePlusAborts ==
    sched.jobFinished = (IF tasksFinished = numTasks THEN 1 ELSE 0) + sched.shutdown

\* The job was aborted and all its tasks finished all the same, one of them
\* by a fetch failure: two notifications, one of them for the completion.
C2_Witness ==
    /\ tasksFinished = numTasks /\ failed
    /\ sched.shutdown = 1 /\ sched.jobFinished = 2
    /\ \E i \in Indices : sched.taskEnded[i] = <<"FetchFailed">>
    /\ \E i \in Indices : sched.taskEnded[i] = <<"Success">>

\* C3: a FAILED or LOST update with a non-fetch reason on an unfinished index i
\* adds 1 to numFailures[i] and re-adds i to the pending structures; it calls
\* abort exactly when numFailures[i] is then greater than MAX_TASK_FAILURES,
\* so failures 1 to 4 of an index do not abort and the 5th does.
C3_RetryBudget ==
    [][\A i \in Indices :
          (/\ UpdateStep(i) /\ last'.status \in {TASK_FAILED, TASK_LOST}
           /\ last'.reason # "FetchFailed" /\ ~finished[i])
          => LET loc == tasks[i].preferredLocations
             IN  /\ numFailures'[i] = numFailures[i] + 1
                 /\ allPendingTasks' = Append(allPendingTasks, i)
                 /\ pendingTasksWithNoPrefs' =
                       IF loc = <<>> THEN Append(pendingTasksWithNoPrefs, i)
                       ELSE pendingTasksWithNoPrefs
                 /\ \A h \in Names :
                       pendingTasksForHost'[h] =
                          IF h \in Range(loc) THEN Append(pendingTasksForHost[h], i)
                          ELSE pendingTasksForHost[h]
                 /\ ~launched'[i] /\ ~finished'[i]
                 /\ AbortStep <=> numFailures[i] + 1 > MAX_TASK_FAILURES
                 /\ AbortStep => failed' /\ sched'.jobFinished = sched.jobFinished + 1
                 /\ ~AbortStep => UNCHANGED << failed, causeOfFailure >>
                                   /\ sched'.jobFinished = sched.jobFinished]_vars

\* The 5th failure of an index has just aborted the job, for the first time.
C3_Witness ==
    \E i \in Indices :
        /\ last.op = "statusUpdate" /\ last.tid = tasks[i].id
        /\ numFailures[i] = MAX_TASK_FAILURES + 1
        /\ failed /\ sched.shutdown = 1
        /\ last.calls = <<"requestMoreResources", "jobFinished", "shutdown">>

\* C4: a LOST/FAILED/KILLED update with a fetch-failure reason on an unfinished
\* index i marks i finished and increments tasksFinished in that step, calls
\* sched.taskEnded with the failure, calls jobFinished iff tasksFinished now
\* equals numTasks, and neither increments numFailures[i], nor calls
\* requestMoreResources or abort, nor appends to any pending structure.
C4_FetchFailureFinishes ==
    [][\A i \in Indices :
          (/\ UpdateStep(i) /\ last'.status \in LostStatuses
           /\ last'.reason = "FetchFailed" /\ ~finished[i])
          => /\ finished'[i]
             /\ tasksFinished' = tasksFinished + 1
             /\ sched'.taskEnded[i] = Append(sched.taskEnded[i], "FetchFailed")
             /\ sched'.jobFinished =
                   sched.jobFinished + (IF tasksFinished' = numTasks THEN 1 ELSE 0)
             /\ numFailures' = numFailures
             /\ sched'.requestMoreResources = sched.requestMoreResources
             /\ sched'.shutdown = sched.shutdown
             /\ UNCHANGED << failed, causeOfFailure >>
             /\ PendingUnchanged]_vars

\* A fetch failure has just completed the job.
C4_Witness ==
    /\ last.op = "statusUpdate" /\ last.reason = "FetchFailed"
    /\ last.calls = <<"taskEnded", "jobFinished">>
    /\ tasksFinished = numTasks

\* C5: tasksFinished is always between 0 and numTasks, and no step decreases it.
C5_TasksFinishedBounded ==
    /\ [](tasksFinished \in 0..numTasks)
    /\ [][tasksFinished' >= tasksFinished]_vars

\* All tasks are finished, one of them after it was resubmitted as a
\* straggler, and a further finish or loss report has arrived.
C5_Witness ==
    /\ tasksFinished = numTasks
    /\ \E i \in Indices : tasks[i].tried > 0
    /\ last.op = "statusUpdate" /\ last.status \in LostStatuses \cup {TASK_FINISHED}
    /\ last.calls = <<>>

\* The names host stands for, read off the resolver: its canonical name,
\* aliases and addresses, or host itself when it does not resolve.
NamesOf(host) ==
    LET r == gethostbyname_ex(host)
    IN  IF r.ok THEN {r.h} \cup Range(r.hs) \cup Range(r.ips) ELSE {host}
\* Task i has, among its preferred locations, a name host stands for.
PrefersNameOf(i, host) == Range(tasks[i].preferredLocations) \cap NamesOf(host) # {}
InWait == now - lastPreferredLaunchTime < LOCALITY_WAIT

\* C6, as claimed: an offer for host H within LOCALITY_WAIT seconds of
\* lastPreferredLaunchTime, while some pending task has H among its preferred
\* locations, returns a task that prefers H.
C6_Original ==
    [][\A H \in OfferHosts :
          (/\ OfferStep(H) /\ InWait
           /\ \E i \in Indices : Pending(i) /\ H \in Range(tasks[i].preferredLocations))
          => /\ last'.ret # None
             /\ H \in Range(tasks[last'.ret].preferredLocations)]_vars

\* C6, amended: an offer for host H within LOCALITY_WAIT seconds of
\* lastPreferredLaunchTime, while some pending task that does not have H in
\* its blacklist has among its preferred locations a name H stands for,
\* returns such a task, flagged preferred, even when pending tasks without
\* preferences or with other preferences exist.
C6_PreferredTaskFirst ==
    [][\A H \in OfferHosts :
          (/\ OfferStep(H) /\ InWait
           /\ \E i \in Indices :
                 Pending(i) /\ H \notin blacklist[i] /\ PrefersNameOf(i, H))
          => /\ last'.ret # None /\ last'.preferred
             /\ Pending(last'.ret) /\ H \notin blacklist[last'.ret]
             /\ PrefersNameOf(last'.ret, H)
             /\ launched'[last'.ret]]_vars

\* Inside the wait, a task preferring the offered host was launched while a
\* task without preferences was pending and is still.
C6_Witness ==
    /\ last.op = "slaveOffer" /\ last.ret # None /\ last.localOnly /\ last.preferred
    /\ PrefersNameOf(last.ret, last.host)
    /\ \E j \in Indices :
          /\ Pending(j) /\ tasks[j].preferredLocations = <<>>
          /\ last.host \notin blacklist[j]

\* C7, as claimed: an offer for host H once LOCALITY_WAIT seconds have passed
\* since lastPreferredLaunchTime, while some task is pending and no pending
\* task prefers H, returns a task.
C7_Original ==
    [][\A H \in OfferHosts :
          (/\ OfferStep(H) /\ ~InWait
           /\ \E i \in Indices : Pending(i)
           /\ \A i \in Indices : Pending(i) => ~PrefersNameOf(i, H))
          => last'.ret # None]_vars

\* C7, amended: an offer for host H once LOCALITY_WAIT seconds have passed
\* since lastPreferredLaunchTime, while no pending task prefers H and some
\* pending task does not have H in its blacklist, returns such a task, an
\* entry of allPendingTasks, rather than declining; it is flagged preferred
\* exactly when it has no preferred locations.
C7_FallbackAfterWait ==
    [][\A H \in OfferHosts :
          (/\ OfferStep(H) /\ ~InWait
           /\ \E i \in Indices : Pending(i) /\ H \notin blacklist[i]
           /\ \A i \in Indices : Pending(i) => ~PrefersNameOf(i, H))
          => /\ last'.ret # None
             /\ Pending(last'.ret) /\ H \notin blacklist[last'.ret]
             /\ last'.ret \in Range(allPendingTasks)
             /\ last'.preferred <=> tasks[last'.ret].preferredLocations = <<>>
             /\ launched'[last'.ret]]_vars

\* After the wait, a task that prefers another host was launched from the
\* flat list.
C7_Witness ==
    /\ last.op = "slaveOffer" /\ last.ret # None
    /\ ~last.localOnly /\ ~last.preferred
    /\ tasks[last.ret].preferredLocations # <<>>
    /\ ~PrefersNameOf(last.ret, last.host)

\* C8: whatever the host and localOnly, when findTask returns a task without
\* preferred locations it flags it preferred: the flat list never yields one.
C8_NoPrefIsPreferred ==
    \A host \in OfferHosts, localOnly \in BOOLEAN :
        LET found == findTask(host, localOnly)
        IN  (found.i # None /\ tasks[found.i].preferredLocations = <<>>)
                => found.preferred

\* A task without preferences, pending again after a loss and so twice in the
\* flat list, is what findTask returns for some host once the wait is over.
C8_Witness ==
    \E host \in OfferHosts :
        LET found == findTask(host, FALSE)
        IN  /\ found.i # None /\ found.preferred
            /\ tasks[found.i].preferredLocations = <<>>
            /\ Cardinality({k \in 1..Len(allPendingTasks) :
                               allPendingTasks[k] = found.i}) = 2
            /\ ~InWait

\* C9, as claimed: when a pending task has a preferred location P and an
\* offer arrives under a host string H other than P that stands for P, no
\* task having been handed to H before, the offer returns that task.
C9_Original ==
    [][\A H \in OfferHosts, i \in Indices :
          (/\ OfferStep(H) /\ Pending(i)
           /\ \A j \in Indices : H \notin blacklist[j]
           /\ \E P \in Range(tasks[i].preferredLocations) : P # H /\ P \in NamesOf(H))
          => last'.ret = i /\ last'.preferred]_vars

\* C9, amended: when some pending task that does not have H in its blacklist
\* has a preferred location among the names the offered string H stands for,
\* the offer returns, flagged preferred and whatever the locality wait, the
\* first such task in the order of H's buckets (canonical name, aliases,
\* addresses): that task itself if no other comes before it.  When H does not
\* resolve, the bucket keyed by H itself is the only one consulted.
C9_AliasMatch ==
    /\ [](\A H \in Names :
             ~gethostbyname_ex(H).ok => getPendingTasksForHost(H) = pendingTasksForHost[H])
    /\ [][\A H \in OfferHosts :
             (/\ OfferStep(H)
              /\ \E i \in Indices :
                    Pending(i) /\ H \notin blacklist[i] /\ PrefersNameOf(i, H))
             => LET r == gethostbyname_ex(H)
                    order == IF r.ok THEN <<r.h>> \o r.hs \o r.ips ELSE <<H>>
                    Good(j) == Pending(j) /\ H \notin blacklist[j]
                    Key(j) == CHOOSE k \in 1..Len(order) :
                                 /\ order[k] \in Range(tasks[j].preferredLocations)
                                 /\ \A m \in 1..(k - 1) :
                                       order[m] \notin Range(tasks[j].preferredLocations)
                IN  /\ last'.ret # None /\ last'.preferred
                    /\ Good(last'.ret) /\ PrefersNameOf(last'.ret, H)
                    /\ \A j \in Indices :
                          (Good(j) /\ PrefersNameOf(j, H)) => Key(last'.ret) <= Key(j)]_vars

\* Inside the wait, an offer under the alias "w1" launched a task whose only
\* preferred location is recorded as "w1.lan".
C9_Witness ==
    /\ last.op = "slaveOffer" /\ last.host = "w1" /\ last.localOnly
    /\ last.ret # None /\ last.preferred
    /\ tasks[last.ret].preferredLocations = <<"w1.lan">>

\* C10: a FINISHED update for a task id whose index is already finished leaves
\* every field of the job unchanged and makes no call to sched.
C10_DuplicateFinishIgnored ==
    [][\A i \in Indices :
          (UpdateStep(i) /\ last'.status = TASK_FINISHED /\ finished[i])
          => /\ last'.calls = <<>>
             /\ UNCHANGED << tasks, launched, finished, numFailures, blacklist,
                             tidToIndex, tasksLaunched, tasksFinished, total_used,
                             lastPreferredLaunchTime, pendingTasksForHost,
                             pendingTasksWithNoPrefs, allPendingTasks, failed,
                             causeOfFailure, sched >>]_vars

\* A FINISHED update has arrived for an index that had finished with Success.
C10_Witness ==
    \E i \in Indices :
        /\ last.op = "statusUpdate" /\ last.tid = tasks[i].id
        /\ last.status = TASK_FINISHED /\ last.calls = <<>>
        /\ finished[i] /\ sched.taskEnded[i] = <<"Success">>

\* C11: sched.shutdown is called only by abort: whenever it has been called,
\* failed is true and causeOfFailure is set; the step that calls it sets both,
\* and calls sched.jobFinished once, right before the shutdown; and once failed
\* is true no step sets it back to false.
C11_ShutdownOnlyByAbort ==
    /\ [](sched.shutdown > 0 => failed /\ causeOfFailure # "")
    /\ [][sched'.shutdown # sched.shutdown =>
            LET c == last'.calls
            IN  /\ sched'.shutdown = sched.shutdown + 1
                /\ failed' /\ causeOfFailure' # ""
                /\ sched'.jobFinished = sched.jobFinished + 1
                /\ Len(c) >= 2
                /\ c[Len(c) - 1] = "jobFinished" /\ c[Len(c)] = "shutdown"]_vars
    /\ [][failed => failed']_vars

\* The job was aborted, and a task has been launched since.
C11_Witness ==
    /\ failed /\ sched.shutdown = 1 /\ sched.jobFinished = 1
    /\ last.op = "slaveOffer" /\ last.ret # None

\* The offer was answered on the fresh-launch path.
FreshOffer == last'.op = "slaveOffer" /\ tasksLaunched < numTasks

\* C12: on the fresh-launch path, slaveOffer(host) returns task i only if
\* before the call i is not launched, not finished and host is not in its
\* blacklist; after it i is launched, host is in its blacklist, tidToIndex
\* maps the task's id to i, tasksLaunched is one more, and
\* lastPreferredLaunchTime is the time of the call if the match was flagged
\* preferred and unchanged if not.  When no task is returned, launched,
\* tasksLaunched, tidToIndex and the blacklists are unchanged.
C12_FreshLaunchEffect ==
    [][FreshOffer =>
          LET i == last'.ret
              host == last'.host
          IN  IF i # None
              THEN /\ ~launched[i] /\ ~finished[i] /\ host \notin blacklist[i]
                   /\ launched' = [launched EXCEPT ![i] = TRUE]
                   /\ blacklist' = [blacklist EXCEPT ![i] = @ \cup {host}]
                   /\ tasks[i].id \in DOMAIN tidToIndex'
                   /\ tidToIndex'[tasks[i].id] = i
                   /\ \A t \in DOMAIN tidToIndex : tidToIndex'[t] = tidToIndex[t]
                   /\ tasksLaunched' = tasksLaunched + 1
                   /\ lastPreferredLaunchTime' =
                         IF last'.preferred THEN now ELSE lastPreferredLaunchTime
              ELSE UNCHANGED << launched, tasksLaunched, tidToIndex, blacklist,
                                lastPreferredLaunchTime >>]_vars

\* A task lost on one host has just been launched again on the other, by a
\* match that was not flagged preferred.
C12_Witness ==
    /\ last.op = "slaveOffer" /\ last.ret # None /\ ~last.speculative
    /\ ~last.preferred
    /\ Cardinality(blacklist[last.ret]) = 2
    /\ Len(allPendingTasks) > numTasks

\* The unfinished tasks none of which started before task i.
EarliestUnfinished ==
    {i \in Indices : ~finished[i] /\
        \A j \in Indices : ~finished[j] => tasks[j].start >= tasks[i].start}

\* C13: when tasksLaunched >= numTasks, slaveOffer returns a task only if
\* 0.75 * numTasks < tasksFinished < numTasks and the unfinished task with the
\* earliest start has run for more than twice the mean duration of the
\* finished tasks and for more than 10 seconds.  Then, if that task's tried is
\* at most MAX_TASK_FAILURES it is returned, tried one more and start reset
\* to the time of the call; otherwise abort is called and nothing is returned.
\* In every other case nothing is returned and nothing changes; no job of 4
\* tasks or fewer meets the first condition.
C13_SpeculativeBranch ==
    /\ [](\A n \in 0..4, f \in 0..4 : ~(f < n /\ 4 * f > 3 * n))
    /\ [][(last'.op = "slaveOffer" /\ tasksLaunched >= numTasks) =>
            LET mostly == tasksFinished < numTasks /\ 4 * tasksFinished > 3 * numTasks
                Slow(j) == /\ (now - tasks[j].start) * tasksFinished > 2 * total_used
                           /\ now - tasks[j].start > 10
            IN  IF mostly /\ \E j \in EarliestUnfinished : Slow(j)
                THEN \E j \in EarliestUnfinished :
                        /\ Slow(j)
                        /\ IF tasks[j].tried <= MAX_TASK_FAILURES
                           THEN /\ last'.ret = j
                                /\ tasks' = [tasks EXCEPT ![j].tried = @ + 1,
                                                           ![j].start = now]
                                /\ UNCHANGED << failed, causeOfFailure, sched >>
                           ELSE /\ last'.ret = None
                                /\ AbortStep /\ failed' /\ causeOfFailure' # ""
                                /\ sched'.jobFinished = sched.jobFinished + 1
                                /\ tasks' = tasks
                ELSE /\ last'.ret = None
                     /\ UNCHANGED << tasks, launched, finished, numFailures, blacklist,
                                     tidToIndex, tasksLaunched, tasksFinished,
                                     total_used, lastPreferredLaunchTime,
                                     pendingTasksForHost, pendingTasksWithNoPrefs,
                                     allPendingTasks, failed, causeOfFailure, sched >>]_vars

\* The straggler, resubmitted MAX_TASK_FAILURES + 1 times, has timed out once
\* more and the offer has aborted the job.
C13_Witness ==
    /\ last.op = "slaveOffer" /\ last.speculative /\ last.ret = None
    /\ last.calls = <<"jobFinished", "shutdown">>
    /\ failed /\ causeOfFailure = "task %s timeout"
    /\ \E i \in Indices : ~finished[i] /\ tasks[i].tried = MAX_TASK_FAILURES + 1

\* C14: while fewer than LOCALITY_WAIT seconds have passed since
\* lastPreferredLaunchTime, a fresh-path offer for a host returns no task that
\* has preferred locations none of which is a name the host stands for;
\* lastPreferredLaunchTime changes only in a slaveOffer step that launches a
\* task flagged preferred (one that prefers the host, or has no preferences),
\* and then to the time of that call.
C14_LocalityWait ==
    /\ [][(FreshOffer /\ InWait /\ last'.ret # None) =>
            \/ tasks[last'.ret].preferredLocations = <<>>
            \/ PrefersNameOf(last'.ret, last'.host)]_vars
    /\ [][lastPreferredLaunchTime' # lastPreferredLaunchTime =>
            /\ FreshOffer /\ last'.ret # None /\ last'.preferred
            /\ \/ tasks[last'.ret].preferredLocations = <<>>
               \/ PrefersNameOf(last'.ret, last'.host)
            /\ lastPreferredLaunchTime' = now]_vars

\* Inside the wait an offer has been declined although a task that prefers
\* other hosts is pending and has not been handed to this host before.
C14_Witness ==
    /\ last.op = "slaveOffer" /\ last.ret = None /\ last.localOnly
    /\ tasksLaunched < numTasks
    /\ \E i \in Indices :
          /\ Pending(i) /\ last.host \notin blacklist[i]
          /\ tasks[i].preferredLocations # <<>>
          /\ ~PrefersNameOf(i, last.host)

\* C15: a KILLED, FAILED or LOST update with a non-fetch reason for an
\* unfinished index i un-launches i, re-adds i to the pending buckets and
\* calls requestMoreResources.  When the status is KILLED, numFailures is
\* left unchanged and abort is not called, however many such updates have
\* arrived; when it is FAILED or LOST, numFailures[i] grows by exactly 1.
C15_KilledIsNotCounted ==
    [][\A i \in Indices :
          (/\ UpdateStep(i) /\ last'.status \in LostStatuses
           /\ last'.reason # "FetchFailed" /\ ~finished[i])
          => LET loc == tasks[i].preferredLocations
             IN  /\ ~launched'[i] /\ tasksLaunched' = tasksLaunched - 1
                 /\ allPendingTasks' = Append(allPendingTasks, i)
                 /\ pendingTasksWithNoPrefs' =
                       IF loc = <<>> THEN Append(pendingTasksWithNoPrefs, i)
                       ELSE pendingTasksWithNoPrefs
                 /\ \A h \in Names :
                       pendingTasksForHost'[h] =
                          IF h \in Range(loc) THEN Append(pendingTasksForHost[h], i)
                          ELSE pendingTasksForHost[h]
                 /\ sched'.requestMoreResources = sched.requestMoreResources + 1
                 /\ IF last'.status = TASK_KILLED
                    THEN /\ numFailures' = numFailures
                         /\ ~AbortStep
                         /\ UNCHANGED << failed, causeOfFailure >>
                         /\ sched'.jobFinished = sched.jobFinished
                    ELSE numFailures' = [numFailures EXCEPT ![i] = @ + 1]]_vars

\* More KILLED updates than the retry budget have re-enqueued tasks, none of
\* them counted, and the job has not been aborted.
C15_Witness ==
    /\ last.op = "statusUpdate" /\ last.status = TASK_KILLED
    /\ last.calls = <<"requestMoreResources">>
    /\ Len(allPendingTasks) - numTasks > MAX_TASK_FAILURES
    /\ \A i \in Indices : numFailures[i] = 0
    /\ ~failed /\ sched.shutdown = 0

\* C16: a speculative relaunch (slaveOffer returning a task when
\* tasksLaunched >= numTasks) sets the chosen task's start to the time of the
\* call and adds 1 to its tried, and changes nothing else: no other task, and
\* none of launched, finished, tasksLaunched, tasksFinished, numFailures,
\* blacklist, tidToIndex, lastPreferredLaunchTime and the pending buckets.
\* The host is not tested against the task's blacklist: a straggler due for
\* relaunch is handed to a host that is in its blacklist already.
C16_SpeculativeFrame ==
    /\ [][(last'.op = "slaveOffer" /\ tasksLaunched >= numTasks /\ last'.ret # None) =>
            LET i == last'.ret
            IN  /\ tasks' = [tasks EXCEPT ![i].start = now, ![i].tried = @ + 1]
                /\ UNCHANGED << launched, finished, tasksLaunched, tasksFinished,
                                numFailures, blacklist, tidToIndex, total_used,
                                lastPreferredLaunchTime, pendingTasksForHost,
                                pendingTasksWithNoPrefs, allPendingTasks, failed,
                                causeOfFailure, sched >>]_vars
    /\ [][\A j \in Indices :
            (/\ last'.op = "slaveOffer" /\ tasksLaunched >= numTasks
             /\ EarliestUnfinished = {j} /\ last'.host \in blacklist[j]
             /\ tasksFinished < numTasks /\ 4 * tasksFinished > 3 * numTasks
             /\ (now - tasks[j].start) * tasksFinished > 2 * total_used
             /\ now - tasks[j].start > 10
             /\ tasks[j].tried <= MAX_TASK_FAILURES)
            => last'.ret = j]_vars

\* A straggler has been relaunched for the second time on the host that had
\* it from the start, and that host is all its blacklist holds.
C16_Witness ==
    /\ last.op = "slaveOffer" /\ last.speculative /\ last.ret # None
    /\ tasks[last.ret].tried = 2 /\ tasks[last.ret].start = now
    /\ blacklist[last.ret] = {last.host}
    /\ launched[last.ret] /\ numFailures[last.ret] = 0

\* C17, as claimed: when every host of a fixed set keeps offering, time moves
\* past the locality wait and every launched task reports FINISHED, FAILED or
\* LOST with a non-fetch reason, the job ends: all its tasks finish or abort
\* is called; and a task that was lost is launched again or the job is
\* aborted.
C17_Original ==
    /\ <>(tasksFinished = numTasks \/ failed)
    /\ \A i \in LiveIndices :
          (Pending(i) /\ numFailures[i] > 0) ~> (launched[i] \/ failed)

\* A task has been lost once on every host: it is pending, no host is left
\* that its blacklist does not hold, and its failures are within the budget.
C17_Stuck ==
    \E i \in Indices :
        /\ Pending(i) /\ blacklist[i] = LiveHosts
        /\ numFailures[i] = Cardinality(LiveHosts) /\ ~failed

\* C18, as claimed: in every reachable state tasksLaunched is the number of
\* indices i with launched[i] true, and so lies between 0 and numTasks.
C18_Original ==
    /\ tasksLaunched = Cardinality({i \in Indices : launched[i]})
    /\ tasksLaunched \in 0..numTasks

\* A second loss report for the same task id has taken tasksLaunched below
\* zero: no index is launched, and none of them has finished.
C18_Negative ==
    /\ tasksLaunched < 0
    /\ \A i \in Indices : ~launched[i] /\ ~finished[i]
    /\ last.op = "statusUpdate" /\ last.status \in LostStatuses

\* The number of sched.taskEnded calls made for indices 1..n.
RECURSIVE TaskEndedCalls(_)
TaskEndedCalls(n) ==
    IF n = 0 THEN 0 ELSE Len(sched.taskEnded[n]) + TaskEndedCalls(n - 1)

\* C19: in every reachable state the number of sched.taskEnded calls made so
\* far equals tasksFinished, which equals the number of finished indices;
\* each index has had at most one taskEnded call (Success or the fetch
\* failure, never both), and has had one exactly if it is finished; and no
\* step takes finished[i] from true to false.
C19_OneTaskEndedPerIndex ==
    /\ [](/\ TaskEndedCalls(numTasks) = tasksFinished
          /\ tasksFinished = Cardinality({i \in Indices : finished[i]})
          /\ \A i \in Indices :
                /\ Len(sched.taskEnded[i]) <= 1
                /\ finished[i] <=> Len(sched.taskEnded[i]) = 1)
    /\ [][\A i \in Indices : finished[i] => finished'[i]]_vars

\* One index finished with Success, the other by a fetch failure, and a
\* FINISHED update for the latter has since been ignored.
C19_Witness ==
    \E i \in Indices :
        /\ last.op = "statusUpdate" /\ last.tid = tasks[i].id
        /\ last.status = TASK_FINISHED /\ last.calls = <<>>
        /\ sched.taskEnded[i] = <<"FetchFailed">>
        /\ \E j \in Indices : sched.taskEnded[j] = <<"Success">>

\* C20: no step removes a host from a blacklist; a fresh-path offer under the
\* host string h returns task i only if h is not in blacklist[i], and leaves
\* h in it.  So once task i has been returned for h, no later fresh-path
\* offer under h returns i, lost and re-enqueued or not.
C20_BlacklistGrows ==
    /\ [][\A i \in Indices : blacklist[i] \subseteq blacklist'[i]]_vars
    /\ [][(FreshOffer /\ last'.ret # None) =>
            /\ last'.host \notin blacklist[last'.ret]
            /\ last'.host \in blacklist'[last'.ret]]_vars

\* After the wait, an offer has been declined under the host string a task
\* was first launched for, although that task is pending again after a loss.
C20_Witness ==
    /\ last.op = "slaveOffer" /\ last.ret = None /\ ~last.localOnly
    /\ ~last.speculative
    /\ \E i \in Indices :
          /\ Pending(i) /\ last.host \in blacklist[i]
          /\ Cardinality({k \in 1..Len(allPendingTasks) : allPendingTasks[k] = i}) = 2

====
